---- MODULE Spec2Model ----
(***************************************************************************)
(* A model of lzo.py: the LzoFile reader/writer of the lzop container.     *)
(* Byte strings are sequences over 0..255; the underlying file object is   *)
(* the byte sequence it holds plus a read position.  The block size and    *)
(* the seek chunk are scaled down (see BLOCK_SIZE and SEEK_CHUNK); every   *)
(* other constant has the value of the source.                             *)
(***************************************************************************)
EXTENDS Integers, Sequences, FiniteSets, TLC

\* ------------------------------------------------------------ constants

MAGIC == <<137, 76, 90, 79, 0, 13, 10, 26, 10>>

READ == 1
WRITE == 2

ADLER32_INIT_VALUE == 1

LZOP_VERSION == 4144
LZO_LIB_VERSION == 2368

\* 0x0940 and 0x0900, the literals of _read_header and _write_header
VER_0940 == 2368
VER_0900 == 2304

\* BLOCK_SIZE is 128*1024 in the source and the chunk of seek() is 1024;
\* both are scaled down, keeping SEEK_CHUNK a proper divisor of BLOCK_SIZE.
BLOCK_SIZE == 4
SEEK_CHUNK == 2
MAX_BLOCK_SIZE == 67108864

F_ADLER32_D == 1
F_ADLER32_C == 2
F_H_EXTRA_FIELD == 64
F_CRC32_D == 256
F_CRC32_C == 512
F_H_FILTER == 2048
F_H_CRC32 == 4096

\* ------------------------------------------------------------ bounds

\* longest plaintext a WRITE stream is given in all (SpecWrite)
MaxLen == 8
\* write() and seek() calls on one WRITE stream (SpecWrite)
MaxWriterOps == 1
\* longest plaintext that is written and read back (Spec)
MaxPlain == 5
\* largest size handed to read() and largest target handed to seek()
MaxRead == 6
MaxSeek == 6
\* the logical offset is not allowed to grow past this
MaxOffset == 7
\* longest name stored in the header
MaxName == 1

\* longest content written, largest read size and seek target in SpecLife
MaxLife == 1

\* the byte values plaintexts are made of
PlainBytes == {0, 1}
\* the byte a name is made of
NameByte == 97

\* ------------------------------------------------------------ helpers

RECURSIVE SeqsUpTo(_, _)
SeqsUpTo(S, n) ==
    IF n = 0 THEN {<<>>}
    ELSE LET shorter == SeqsUpTo(S, n - 1)
         IN shorter \cup {Append(s, x) : s \in {t \in shorter : Len(t) = n - 1}, x \in S}

\* content[a:b] of Python, 0-based, b exclusive, clipped to the sequence
Slice(s, a, b) ==
    LET lo == IF a < 0 THEN 0 ELSE a
        hi == IF b > Len(s) THEN Len(s) ELSE b
    IN IF hi <= lo THEN <<>> ELSE SubSeq(s, lo + 1, hi)

\* n * '\0'
RECURSIVE Zeros(_)
Zeros(n) == IF n <= 0 THEN <<>> ELSE <<0>> \o Zeros(n - 1)

\* flags & F for a one-bit mask F
HasFlag(flags, F) == (flags \div F) % 2 = 1

\* struct.pack(">I", v), struct.pack(">H", v), struct.pack("B", v)
pack32(v) == << (v \div 16777216) % 256, (v \div 65536) % 256, (v \div 256) % 256, v % 256 >>
pack16(v) == << (v \div 256) % 256, v % 256 >>
pack8(v) == << v % 256 >>

\* struct.unpack(">I", b)[0] etc.
unpack32(b) == b[1] * 16777216 + b[2] * 65536 + b[3] * 256 + b[4]
unpack16(b) == b[1] * 256 + b[2]

\* ------------------------------------------------------------ _lzo

\* lzo_adler32(bytes, adler): Adler-32 of RFC 1950 continued from adler
RECURSIVE adler_fold(_, _, _, _)
adler_fold(bytes, i, s1, s2) ==
    IF i > Len(bytes) THEN s2 * 65536 + s1
    ELSE LET n1 == (s1 + bytes[i]) % 65521
         IN adler_fold(bytes, i + 1, n1, (s2 + n1) % 65521)

lzo_adler32(bytes, adler) == adler_fold(bytes, 1, adler % 65536, adler \div 65536)

\* compress_block: a run-length code, <<count, byte>> per maximal run
RECURSIVE runEnd(_, _, _)
runEnd(block, i, j) ==
    IF j < Len(block) /\ block[j + 1] = block[i] THEN runEnd(block, i, j + 1) ELSE j

RECURSIVE rle_encode(_, _)
rle_encode(block, i) ==
    IF i > Len(block) THEN <<>>
    ELSE LET e == runEnd(block, i, i)
         IN <<e - i + 1, block[i]>> \o rle_encode(block, e + 1)

compress_block(block, method, level) == rle_encode(block, 1)

\* decompress_block: the inverse; it fails when the input is no code of a
\* block of dst_len bytes
RECURSIVE rle_decode(_, _)
rle_decode(c, i) ==
    IF i + 1 > Len(c) THEN <<>>
    ELSE [k \in 1..c[i] |-> c[i + 1]] \o rle_decode(c, i + 2)

decompress_block(block, dst_len) ==
    LET out == rle_decode(block, 1)
    IN IF Len(block) % 2 = 0 /\ Len(out) = dst_len
       THEN [ok |-> TRUE, data |-> out]
       ELSE [ok |-> FALSE, data |-> <<>>]

\* ------------------------------------------------------------ write path

\* the fields of a block record that _write_block did not write
NOT_WRITTEN == -1

\* _write_block with the comparison of line 370 weakened to <=: a block that
\* does not shrink is written compressed
_write_block_le(block, method, level) ==
    LET d_adler32 == lzo_adler32(block, ADLER32_INIT_VALUE)
        compressed == compress_block(block, method, level)
        c_adler32 == lzo_adler32(compressed, ADLER32_INIT_VALUE)
    IN IF Len(block) = 0
       THEN [ulen |-> 0, clen |-> NOT_WRITTEN, d_adler32 |-> NOT_WRITTEN,
             c_adler32 |-> NOT_WRITTEN, payload |-> <<>>, block |-> block,
             bytes |-> pack32(0)]
       ELSE IF Len(compressed) <= Len(block)
       THEN [ulen |-> Len(block), clen |-> Len(compressed), d_adler32 |-> d_adler32,
             c_adler32 |-> c_adler32, payload |-> compressed, block |-> block,
             bytes |-> pack32(Len(block)) \o pack32(Len(compressed)) \o pack32(d_adler32)
                         \o pack32(c_adler32) \o compressed]
       ELSE [ulen |-> Len(block), clen |-> Len(block), d_adler32 |-> d_adler32,
             c_adler32 |-> NOT_WRITTEN, payload |-> block, block |-> block,
             bytes |-> pack32(Len(block)) \o pack32(Len(block)) \o pack32(d_adler32)
                         \o block]

\* _write_block: the values handed to _write32 and fileobj.write, in the
\* fields of one record, and in bytes the concatenation of what was written
_write_block(block, method, level) ==
    LET d_adler32 == lzo_adler32(block, ADLER32_INIT_VALUE)
        compressed == compress_block(block, method, level)
        c_adler32 == lzo_adler32(compressed, ADLER32_INIT_VALUE)
    IN IF Len(block) = 0
       THEN [ulen |-> 0, clen |-> NOT_WRITTEN, d_adler32 |-> NOT_WRITTEN,
             c_adler32 |-> NOT_WRITTEN, payload |-> <<>>, block |-> block,
             bytes |-> pack32(0)]
       ELSE IF Len(compressed) < Len(block)
       THEN [ulen |-> Len(block), clen |-> Len(compressed), d_adler32 |-> d_adler32,
             c_adler32 |-> c_adler32, payload |-> compressed, block |-> block,
             bytes |-> pack32(Len(block)) \o pack32(Len(compressed)) \o pack32(d_adler32)
                         \o pack32(c_adler32) \o compressed]
       ELSE [ulen |-> Len(block), clen |-> Len(block), d_adler32 |-> d_adler32,
             c_adler32 |-> NOT_WRITTEN, payload |-> block, block |-> block,
             bytes |-> pack32(Len(block)) \o pack32(Len(block)) \o pack32(d_adler32)
                         \o block]

\* the while loop of write() and the _write_block call after it: the records
\* of the _write_block calls, in order
RECURSIVE write_blocks(_, _, _, _)
write_blocks(content, off, method, level) ==
    IF off + BLOCK_SIZE < Len(content)
    THEN <<_write_block(Slice(content, off, off + BLOCK_SIZE), method, level)>>
             \o write_blocks(content, off + BLOCK_SIZE, method, level)
    ELSE <<_write_block(Slice(content, off, Len(content)), method, level)>>

RECURSIVE BytesOf(_)
BytesOf(recs) == IF recs = <<>> THEN <<>> ELSE Head(recs).bytes \o BytesOf(Tail(recs))

\* write() with the loop condition of line 420 weakened to <=: input that is
\* a whole number of blocks gets an empty block record after its last block
RECURSIVE write_blocks_le(_, _, _, _)
write_blocks_le(content, off, method, level) ==
    IF off + BLOCK_SIZE <= Len(content)
    THEN <<_write_block(Slice(content, off, off + BLOCK_SIZE), method, level)>>
             \o write_blocks_le(content, off + BLOCK_SIZE, method, level)
    ELSE <<_write_block(Slice(content, off, Len(content)), method, level)>>

write_le(content, method, level) ==
    LET recs == write_blocks_le(content, 0, method, level)
    IN [recs |-> recs, term |-> pack32(0), bytes |-> BytesOf(recs) \o pack32(0)]

\* write(content): the block records, the terminator of line 428, and all
\* bytes appended to fileobj
write(content, method, level) ==
    LET recs == write_blocks(content, 0, method, level)
    IN [recs |-> recs, term |-> pack32(0), bytes |-> BytesOf(recs) \o pack32(0)]

\* _write_header: the tracked writes, in order, and the closing checksum
HeaderFields(self) ==
    << pack16(self.version), pack16(self.libver), pack16(VER_0940),
       pack8(self.method), pack8(self.level), pack32(self.flags),
       pack32(self.mode), pack32(self.mtime_low), pack32(self.mtime_high),
       pack8(Len(self.name)) >>
    \o (IF Len(self.name) > 0 THEN <<self.name>> ELSE <<>>)

\* successive _write_c/_read_c calls: each folds its bytes into self.adler32
RECURSIVE adler_chunks(_, _)
adler_chunks(chunks, adler) ==
    IF chunks = <<>> THEN adler
    ELSE adler_chunks(Tail(chunks), lzo_adler32(Head(chunks), adler))

RECURSIVE Concat(_)
Concat(chunks) == IF chunks = <<>> THEN <<>> ELSE Head(chunks) \o Concat(Tail(chunks))

_write_header(self) ==
    LET fields == HeaderFields(self)
        adler32 == adler_chunks(fields, ADLER32_INIT_VALUE)
    IN [bytes |-> Concat(fields) \o pack32(adler32),
        adler32 |-> lzo_adler32(pack32(adler32), adler32)]

\* ------------------------------------------------------------ read path

\* fileobj.read(n) at position pos of the bytes f: short at end of file
fread(f, pos, n) == Slice(f, pos, pos + n)

\* _read_magic
_read_magic(f, pos) ==
    [err |-> IF fread(f, pos, Len(MAGIC)) = MAGIC THEN "none" ELSE "IOError",
     fpos |-> IF pos + Len(MAGIC) > Len(f) THEN Len(f) ELSE pos + Len(MAGIC)]

\* --- the parser's cursor: the fields of self that _read_header sets, the
\* position of fileobj, and the exception that ended the parse ("none")

Raise(h, e) == [h EXCEPT !.err = e]

\* the position after fileobj.read(n)
After(f, pos, n) == IF pos + n > Len(f) THEN Len(f) ELSE pos + n

\* _read_c(n): fileobj.read(n), folded into self.adler32
_read_c(f, h, n) ==
    [h EXCEPT !.fpos = After(f, h.fpos, n),
              !.adler32 = lzo_adler32(fread(f, h.fpos, n), h.adler32)]

\* self.<k> = self._read32_c(), and so on; struct.unpack and ord raise on
\* a short read
_read32_c(f, h, k) ==
    IF h.err # "none" THEN h
    ELSE IF Len(fread(f, h.fpos, 4)) < 4 THEN Raise(_read_c(f, h, 4), "struct.error")
    ELSE [_read_c(f, h, 4) EXCEPT ![k] = unpack32(fread(f, h.fpos, 4))]

_read16_c(f, h, k) ==
    IF h.err # "none" THEN h
    ELSE IF Len(fread(f, h.fpos, 2)) < 2 THEN Raise(_read_c(f, h, 2), "struct.error")
    ELSE [_read_c(f, h, 2) EXCEPT ![k] = unpack16(fread(f, h.fpos, 2))]

_read8_c(f, h, k) ==
    IF h.err # "none" THEN h
    ELSE IF Len(fread(f, h.fpos, 1)) < 1 THEN Raise(_read_c(f, h, 1), "TypeError")
    ELSE [_read_c(f, h, 1) EXCEPT ![k] = fread(f, h.fpos, 1)[1]]

\* self.<k> = self._read32(): not folded into self.adler32
_read32(f, h, k) ==
    IF h.err # "none" THEN h
    ELSE IF Len(fread(f, h.fpos, 4)) < 4
    THEN Raise([h EXCEPT !.fpos = After(f, h.fpos, 4)], "struct.error")
    ELSE [h EXCEPT !.fpos = After(f, h.fpos, 4), ![k] = unpack32(fread(f, h.fpos, 4))]

\* lines 181-189
header_versions(f, h) == _read16_c(f, _read16_c(f, h, "version"), "libver")

header_ext_check(h) ==
    IF h.err # "none" THEN h
    ELSE IF h.ver_need_ext > LZOP_VERSION THEN Raise(h, "IOError")
    ELSE IF h.ver_need_ext < VER_0900 THEN Raise(h, "IOError")
    ELSE h

header_ext(f, h) ==
    IF h.err = "none" /\ h.version > VER_0940
    THEN header_ext_check(_read16_c(f, h, "ver_need_ext"))
    ELSE h

\* lines 191-192
header_method_check(h) ==
    IF h.err = "none" /\ h.method \notin {1, 2, 3} THEN Raise(h, "AssertionError") ELSE h

header_method(f, h) == header_method_check(_read8_c(f, h, "method"))

\* lines 194-195
header_level(f, h) ==
    IF h.err = "none" /\ h.version >= VER_0940 THEN _read8_c(f, h, "level") ELSE h

\* lines 197-200
header_flags_check(h) ==
    IF h.err = "none" /\ HasFlag(h.flags, F_H_CRC32) THEN Raise(h, "error") ELSE h

header_flags(f, h) == header_flags_check(_read32_c(f, h, "flags"))

\* lines 202-203
header_filter(f, h) ==
    IF h.err = "none" /\ HasFlag(h.flags, F_H_FILTER) THEN _read32(f, h, "ffilter") ELSE h

\* lines 205-208
header_mtime_high(f, h) ==
    IF h.err = "none" /\ h.version >= VER_0940 THEN _read32_c(f, h, "mtime_high") ELSE h

header_times(f, h) ==
    header_mtime_high(f, _read32_c(f, _read32_c(f, h, "compress_mode"), "mtime_low"))

\* lines 210-211
header_name_bytes(f, h) ==
    IF h.err # "none" THEN h
    ELSE [_read_c(f, h, h.l) EXCEPT !.name = fread(f, h.fpos, h.l)]

header_name(f, h) == header_name_bytes(f, _read8_c(f, h, "l"))

\* lines 213-217
header_capture(h) == IF h.err # "none" THEN h ELSE [h EXCEPT !.checksum = h.adler32]

header_verify(h) ==
    IF h.err = "none" /\ h.verify_checksum /\ h.checksum # h.header_checksum
    THEN Raise(h, "AssertionError")
    ELSE h

header_sum(f, h) == header_verify(_read32_c(f, header_capture(h), "header_checksum"))

\* lines 219-224
header_extra_bytes(f, h) ==
    IF h.err # "none" THEN h
    ELSE [_read_c(f, h, h.l) EXCEPT !.checksum = lzo_adler32(fread(f, h.fpos, h.l), h.adler32)]

header_extra_verify(h) ==
    IF h.err = "none" /\ h.checksum # h.extra_checksum THEN Raise(h, "AssertionError") ELSE h

header_extra_sum(f, h) ==
    IF h.err = "none" /\ h.verify_checksum
    THEN header_extra_verify(_read32_c(f, h, "extra_checksum"))
    ELSE h

header_extra(f, h) ==
    IF h.err = "none" /\ HasFlag(h.flags, F_H_EXTRA_FIELD)
    THEN header_extra_sum(f, header_extra_bytes(f, _read32_c(f, h, "l")))
    ELSE h

NoHeader ==
    [err |-> "none", fpos |-> 0, adler32 |-> ADLER32_INIT_VALUE, verify_checksum |-> TRUE,
     version |-> 0, libver |-> 0, ver_need_ext |-> 0, method |-> 0, level |-> 0,
     flags |-> 0, ffilter |-> 0, compress_mode |-> 0, mtime_low |-> 0, mtime_high |-> 0,
     l |-> 0, name |-> <<>>, checksum |-> 0, header_checksum |-> 0, extra_checksum |-> 0]

\* _read_header with fileobj at position pos
_read_header(f, pos, verify_checksum) ==
    header_extra(f,
      header_sum(f,
        header_name(f,
          header_times(f,
            header_filter(f,
              header_flags(f,
                header_level(f,
                  header_method(f,
                    header_ext(f,
                      header_versions(f,
                        [NoHeader EXCEPT !.fpos = pos,
                                         !.verify_checksum = verify_checksum]))))))))))

\* --- _read_block: the cursor holds its locals; stop is set by return None

NoBlock ==
    [err |-> "none", stop |-> FALSE, fpos |-> 0, dst_len |-> 0, src_len |-> 0,
     d_adler32 |-> 0, d_bound |-> FALSE, d_crc32 |-> 0, dcrc_bound |-> FALSE,
     c_adler32 |-> 0, c_crc32 |-> 0, block |-> <<>>, uncompressed |-> <<>>]

Live(b) == b.err = "none" /\ ~b.stop

\* lines 227-233
block_dst_check(b) ==
    IF ~Live(b) THEN b
    ELSE IF b.dst_len = 0 THEN [b EXCEPT !.stop = TRUE]
    ELSE IF b.dst_len > MAX_BLOCK_SIZE THEN Raise(b, "error")
    ELSE b

block_dst(f, b) == block_dst_check(_read32(f, b, "dst_len"))

\* line 235
block_src(f, b) == IF Live(b) THEN _read32(f, b, "src_len") ELSE b

\* lines 237-241
block_d(f, b, flags) ==
    IF Live(b) /\ HasFlag(flags, F_ADLER32_D)
    THEN [_read32(f, b, "d_adler32") EXCEPT !.d_bound = TRUE]
    ELSE b

block_dcrc(f, b, flags) ==
    IF Live(b) /\ HasFlag(flags, F_CRC32_D)
    THEN [_read32(f, b, "d_crc32") EXCEPT !.dcrc_bound = TRUE]
    ELSE b

\* lines 243-247
block_c(f, b, flags) ==
    IF Live(b) /\ HasFlag(flags, F_ADLER32_C)
    THEN IF b.src_len < b.dst_len THEN _read32(f, b, "c_adler32")
         ELSE IF b.d_bound THEN [b EXCEPT !.c_adler32 = b.d_adler32]
         ELSE Raise(b, "UnboundLocalError")
    ELSE b

\* lines 249-253
block_ccrc(f, b, flags) ==
    IF Live(b) /\ HasFlag(flags, F_CRC32_C)
    THEN IF b.src_len < b.dst_len THEN _read32(f, b, "c_crc32")
         ELSE IF b.dcrc_bound THEN [b EXCEPT !.c_crc32 = b.d_crc32]
         ELSE Raise(b, "UnboundLocalError")
    ELSE b

\* line 255
block_payload(f, b) ==
    IF Live(b)
    THEN [b EXCEPT !.fpos = After(f, b.fpos, b.src_len), !.block = fread(f, b.fpos, b.src_len)]
    ELSE b

\* lines 258-261 without the call of decompress_block
block_decode_raw(b) ==
    IF ~Live(b) THEN b ELSE [b EXCEPT !.uncompressed = b.block]

\* lines 258-261
block_decode(b) ==
    IF ~Live(b) THEN b
    ELSE IF b.src_len < b.dst_len
    THEN IF decompress_block(b.block, b.dst_len).ok
         THEN [b EXCEPT !.uncompressed = decompress_block(b.block, b.dst_len).data]
         ELSE Raise(b, "error")
    ELSE [b EXCEPT !.uncompressed = b.block]

\* lines 263-270 with the test of self.verify_checksum left out
block_verify_always(b, flags, verify_checksum) ==
    IF ~Live(b) THEN b
    ELSE IF HasFlag(flags, F_ADLER32_C)
            /\ lzo_adler32(b.block, ADLER32_INIT_VALUE) # b.c_adler32
    THEN Raise(b, "AssertionError")
    ELSE IF HasFlag(flags, F_ADLER32_D)
            /\ lzo_adler32(b.uncompressed, ADLER32_INIT_VALUE) # b.d_adler32
    THEN Raise(b, "AssertionError")
    ELSE b

\* lines 263-270
block_verify(b, flags, verify_checksum) ==
    IF ~Live(b) \/ ~verify_checksum THEN b
    ELSE IF HasFlag(flags, F_ADLER32_C)
            /\ lzo_adler32(b.block, ADLER32_INIT_VALUE) # b.c_adler32
    THEN Raise(b, "AssertionError")
    ELSE IF HasFlag(flags, F_ADLER32_D)
            /\ lzo_adler32(b.uncompressed, ADLER32_INIT_VALUE) # b.d_adler32
    THEN Raise(b, "AssertionError")
    ELSE b

\* _read_block with fileobj at position pos: uncompressed is the block
\* returned, <<>> when it returns None
_read_block(f, pos, flags, verify_checksum) ==
    block_verify(
      block_decode(
        block_payload(f,
          block_ccrc(f,
            block_c(f,
              block_dcrc(f,
                block_d(f,
                  block_src(f,
                    block_dst(f, [NoBlock EXCEPT !.fpos = pos])),
                  flags),
                flags),
              flags),
            flags))),
      flags, verify_checksum)

\* _clear_buf
_clear_buf(self) == [self EXCEPT !.buf = <<>>, !.buf_len = 0]

\* the while loop of _read_from_buf; pop(0) is Head/Tail of buf
RECURSIVE read_from_buf_loop(_, _, _, _)
read_from_buf_loop(self, size, buf_read, result) ==
    IF self.buf = <<>> THEN [self |-> self, ret |-> result]
    ELSE LET block == Head(self.buf)
             popped == [self EXCEPT !.buf = Tail(self.buf)]
         IN IF buf_read + Len(block) < size
            THEN read_from_buf_loop(popped, size, buf_read + Len(block), result \o block)
            ELSE IF buf_read + Len(block) = size
            THEN [self |-> popped, ret |-> result \o block]
            ELSE LET need == Slice(block, 0, size - buf_read)
                     remain == Slice(block, size - buf_read, Len(block))
                     cleared == _clear_buf(popped)
                 IN [self |-> [cleared EXCEPT !.buf = Append(cleared.buf, remain),
                                              !.buf_len = cleared.buf_len + Len(remain)],
                     ret |-> result \o need]

\* _read_from_buf with the split of line 153 off by one: remain starts one
\* byte late
RECURSIVE read_from_buf_loop_late(_, _, _, _)
read_from_buf_loop_late(self, size, buf_read, result) ==
    IF self.buf = <<>> THEN [self |-> self, ret |-> result]
    ELSE LET block == Head(self.buf)
             popped == [self EXCEPT !.buf = Tail(self.buf)]
         IN IF buf_read + Len(block) < size
            THEN read_from_buf_loop_late(popped, size, buf_read + Len(block), result \o block)
            ELSE IF buf_read + Len(block) = size
            THEN [self |-> popped, ret |-> result \o block]
            ELSE LET need == Slice(block, 0, size - buf_read)
                     remain == Slice(block, size - buf_read + 1, Len(block))
                     cleared == _clear_buf(popped)
                 IN [self |-> [cleared EXCEPT !.buf = Append(cleared.buf, remain),
                                              !.buf_len = cleared.buf_len + Len(remain)],
                     ret |-> result \o need]

_read_from_buf_late(self, size) ==
    IF ~(self.buf_len >= size)
    THEN [self |-> self, ret |-> <<>>, err |-> "AssertionError"]
    ELSE LET r == read_from_buf_loop_late(self, size, 0, <<>>)
         IN [self |-> r.self, ret |-> r.ret, err |-> "none"]

\* _read_from_buf
_read_from_buf(self, size) ==
    IF ~(self.buf_len >= size)
    THEN [self |-> self, ret |-> <<>>, err |-> "AssertionError"]
    ELSE LET r == read_from_buf_loop(self, size, 0, <<>>)
         IN [self |-> r.self, ret |-> r.ret, err |-> "none"]

\* one turn of the while loop of read(), lines 405-410, b being what
\* _read_block did
read_fill_block(self, b) ==
    IF b.err # "none" THEN [self |-> [self EXCEPT !.fpos = b.fpos], err |-> b.err, more |-> FALSE]
    ELSE IF b.uncompressed # <<>>
    THEN [self |-> [self EXCEPT !.fpos = b.fpos,
                                !.buf = Append(self.buf, b.uncompressed),
                                !.buf_len = self.buf_len + Len(b.uncompressed)],
          err |-> "none", more |-> TRUE]
    ELSE [self |-> [self EXCEPT !.fpos = b.fpos], err |-> "none", more |-> FALSE]

\* the while loop of read(): fetch blocks until size bytes are recorded as
\* buffered, or for ever when size = -1, and stop at a terminator
RECURSIVE read_fill(_, _, _)
read_fill(x, f, size) ==
    IF x.more /\ (size = -1 \/ x.self.buf_len < size)
    THEN read_fill(read_fill_block(x.self,
                       _read_block(f, x.self.fpos, x.self.flags, x.self.verify_checksum)),
                   f, size)
    ELSE x

\* lines 412-414 of read()
read_deliver(filled, to_read) ==
    IF filled.err # "none" THEN [self |-> filled.self, ret |-> <<>>, err |-> filled.err]
    ELSE _read_from_buf([filled.self EXCEPT !.offset = filled.self.offset + to_read], to_read)

read_filled(filled, size) ==
    read_deliver(filled, IF size = -1 THEN filled.self.buf_len ELSE size)

\* the ValueError of _check_closed and the one of seek()
ClosedError == "ValueError: I/O operation on closed file."
SeekEndError == "ValueError: Seek from end not supported"

\* read(size) on the stream self over the file bytes f
read(self, f, size) ==
    IF self.closed THEN [self |-> self, ret |-> <<>>, err |-> ClosedError]
    ELSE IF self.mode # READ THEN [self |-> self, ret |-> <<>>, err |-> "IOError"]
    ELSE read_filled(read_fill([self |-> self, err |-> "none", more |-> TRUE], f, size), size)

\* the fields _read_header sets, copied from the parser's cursor
SetHeader(self, h) ==
    [self EXCEPT !.fpos = h.fpos,
                 !.version = h.version, !.libver = h.libver, !.method = h.method,
                 !.level = h.level, !.flags = h.flags,
                 !.compress_mode = h.compress_mode, !.mtime_low = h.mtime_low,
                 !.mtime_high = h.mtime_high, !.name = h.name,
                 !.header_checksum = h.header_checksum, !.adler32 = h.adler32]

\* lines 498-501 of rewind()
rewind_header(self, h) ==
    IF h.err # "none" THEN [self |-> [self EXCEPT !.fpos = h.fpos], err |-> h.err]
    ELSE [self |-> [_clear_buf(SetHeader(self, h)) EXCEPT !.offset = 0], err |-> "none"]

\* lines 496-497
rewind_magic(self, f, m) ==
    IF m.err # "none" THEN [self |-> [self EXCEPT !.fpos = m.fpos], err |-> m.err]
    ELSE rewind_header(self, _read_header(f, m.fpos, self.verify_checksum))

\* rewind()
rewind(self, f) ==
    IF self.mode # READ THEN [self |-> self, err |-> "IOError"]
    ELSE IF self.closed THEN [self |-> self, err |-> "AttributeError"]
    ELSE rewind_magic(self, f, _read_magic(f, 0))

\* for i in range(n): self.read(1024), an exception ending the loop; skipped
\* collects what the reads returned
seek_read_chunk(x, r) ==
    [self |-> r.self, err |-> r.err, skipped |-> x.skipped \o r.ret, rewound |-> x.rewound]

RECURSIVE seek_reads(_, _, _)
seek_reads(x, f, n) ==
    IF n <= 0 \/ x.err # "none" THEN x
    ELSE seek_reads(seek_read_chunk(x, read(x.self, f, SEEK_CHUNK)), f, n - 1)

\* for i in range(n): self.write(1024 * '\0')
RECURSIVE seek_writes(_)
seek_writes(n) == IF n <= 0 THEN <<>> ELSE <<Zeros(SEEK_CHUNK)>> \o seek_writes(n - 1)

\* seek() in READ mode, lines 484-486: the last read and the return
seek_read_return(x, r) ==
    [self |-> r.self, err |-> r.err, skipped |-> x.skipped \o r.ret, rewound |-> x.rewound,
     ret |-> IF r.err = "none" THEN r.self.offset ELSE -1]

seek_read_tail(f, count, x) ==
    IF x.err # "none"
    THEN [self |-> x.self, err |-> x.err, skipped |-> x.skipped, rewound |-> x.rewound,
          ret |-> -1]
    ELSE seek_read_return(x, read(x.self, f, count % SEEK_CHUNK))

\* lines 481-483; x is the stream after the rewind, if there was one
seek_read_count(f, count, x) == seek_read_tail(f, count, seek_reads(x, f, count \div SEEK_CHUNK))

seek_read_from(f, offset, x) == seek_read_count(f, offset - x.self.offset, x)

\* lines 478-480
seek_rewind(r) == [self |-> r.self, err |-> r.err, skipped |-> <<>>, rewound |-> TRUE]

seek_read_to(self, f, offset) ==
    seek_read_from(f, offset,
                   IF offset < self.offset THEN seek_rewind(rewind(self, f))
                   ELSE [self |-> self, err |-> "none", skipped |-> <<>>, rewound |-> FALSE])

\* seek(offset, whence) in READ mode: ret is the value returned, skipped
\* what its reads returned
seek_read(self, f, offset, whence) ==
    IF whence \notin {0, 1}
    THEN [self |-> self, err |-> SeekEndError, skipped |-> <<>>, rewound |-> FALSE,
          ret |-> -1]
    ELSE seek_read_to(self, f, IF whence = 1 THEN self.offset + offset ELSE offset)

\* seek(offset, whence) in WRITE mode: contents are the arguments of its
\* write() calls, in order; ret is the value returned
seek_write(self, offset0, whence) ==
    LET offset == IF whence = 1 THEN self.offset + offset0 ELSE offset0
        count == offset - self.offset
    IN IF whence \notin {0, 1}
       THEN [err |-> SeekEndError, contents |-> <<>>, ret |-> -1]
       ELSE IF offset < self.offset
       THEN [err |-> "IOError", contents |-> <<>>, ret |-> -1]
       ELSE [err |-> "none",
             contents |-> seek_writes(count \div SEEK_CHUNK)
                            \o <<Zeros(count % SEEK_CHUNK)>>,
             ret |-> self.offset]

\* fileobj.write(bytes) at position pos of the bytes f
fwrite(f, pos, bytes) == Slice(f, 0, pos) \o bytes \o Slice(f, pos + Len(bytes), Len(f))

\* write(content) on any stream: it checks neither closed nor mode, so what
\* happens is up to the first self.fileobj.write of _write32 (line 317).
\* A closed stream has fileobj None; a WRITE stream appends; a READ stream
\* writes where its file object stands.
write_on(self, f, writable, content) ==
    IF self.closed THEN [self |-> self, f |-> f, err |-> "AttributeError"]
    ELSE IF ~writable THEN [self |-> self, f |-> f, err |-> "UnsupportedOperation"]
    ELSE IF self.mode = WRITE
    THEN [self |-> self, f |-> f \o write(content, self.method, self.level).bytes,
          err |-> "none"]
    ELSE [self |-> [self EXCEPT !.fpos = self.fpos
                                  + Len(write(content, self.method, self.level).bytes)],
          f |-> fwrite(f, self.fpos, write(content, self.method, self.level).bytes),
          err |-> "none"]

\* seek(offset, whence) on a closed stream: a WRITE stream fails in the first
\* write() it calls, a READ stream in rewind() or read()
seek_closed(self, f, offset, whence) ==
    IF self.mode = WRITE
    THEN [self |-> self,
          err |-> IF seek_write(self, offset, whence).err # "none"
                  THEN seek_write(self, offset, whence).err ELSE "AttributeError"]
    ELSE [self |-> seek_read(self, f, offset, whence).self,
          err |-> seek_read(self, f, offset, whence).err]

\* ------------------------------------------------------------ state

VARIABLES
    pc,        \* "new", "write", "wclosed", "read", "rclosed", "failed"
    fileobj,   \* the bytes the underlying file object holds
    fileobj_closes, \* how often the stream has called fileobj.close()
    fileobj_writable, \* whether the underlying file object accepts write()
    damage,    \* history: the checksum field of the file altered after it was written
    self,      \* the fields of the LzoFile object
    plain,     \* history: the contents handed to write(), in order
    wlog,      \* history: what the last write() call emitted
    wcalls,    \* history: the calls made on the WRITE stream, "write" or "seek"
    crafted,   \* history: the header a hand-made file was opened with
    got,       \* history: bytes returned by the reads since open or rewind
    last       \* history: the last operation, its argument and its outcome

vars == <<pc, fileobj, fileobj_closes, fileobj_writable, damage, self, plain, wlog, wcalls, crafted, got, last>>

NoSelf ==
    [mode |-> 0, closed |-> FALSE, need_close |-> FALSE, offset |-> 0,
     verify_checksum |-> TRUE, buf |-> <<>>, buf_len |-> 0, fpos |-> 0,
     version |-> 0, libver |-> 0, method |-> 0, level |-> 0, flags |-> 0,
     compress_mode |-> 0, mtime_low |-> 0, mtime_high |-> 0, name |-> <<>>,
     header_checksum |-> 0, adler32 |-> 0]

NoLog == [recs |-> <<>>, term |-> <<>>, bytes |-> <<>>]
NoDamage == [block |-> 0, field |-> "none"]
NoCrafted == [made |-> FALSE, tracked |-> <<>>, stored |-> 0, flags |-> 0, verify |-> FALSE]

\* The record of an operation: its argument(s), the bytes (ret) or the number
\* (val) it returned and the exception it raised; and of the operations made
\* on the stream before it: first, there were none; only, they were all
\* read(n) with n >= 0; sum, the total of the sizes those asked for.
Op(op, arg, whence, ret, val, err) ==
    [op |-> op, arg |-> arg, whence |-> whence, ret |-> ret, val |-> val, err |-> err,
     first |-> last.op = "open",
     only |-> last.op = "open" \/ (last.only /\ last.op = "read" /\ last.arg >= 0),
     sum |-> IF last.only /\ last.op = "read" /\ last.arg >= 0 THEN last.sum + last.arg
             ELSE 0]

Names == SeqsUpTo({NameByte}, MaxName)
Contents == SeqsUpTo(PlainBytes, MaxLen)
ShortContents == SeqsUpTo(PlainBytes, MaxPlain)
LifeContents == SeqsUpTo(PlainBytes, MaxLife)

RECURSIVE TotalLen(_)
TotalLen(chunks) == IF chunks = <<>> THEN 0 ELSE Len(Head(chunks)) + TotalLen(Tail(chunks))

Init ==
    /\ pc = "new"
    /\ fileobj = <<>>
    /\ fileobj_closes = 0
    /\ fileobj_writable = TRUE
    /\ damage = NoDamage
    /\ self = NoSelf
    /\ plain = <<>>
    /\ wlog = NoLog
    /\ crafted = NoCrafted
    /\ got = <<>>
    /\ wcalls = <<>>
    /\ last = [op |-> "none", arg |-> 0, whence |-> 0, ret |-> <<>>, val |-> -1,
               err |-> "none", first |-> FALSE, only |-> FALSE, sum |-> 0]

\* ------------------------------------------------------------ WRITE stream

\* LzoFile(filename = name, mode = 'wb'), with or without a fileobj
InitWrite(name, need_close) ==
    LET fields == [NoSelf EXCEPT !.mode = WRITE, !.need_close = need_close,
                                 !.version = LZOP_VERSION, !.libver = LZO_LIB_VERSION,
                                 !.method = 1, !.level = 1,
                                 !.flags = F_ADLER32_D + F_ADLER32_C,
                                 !.compress_mode = 0, !.mtime_low = 0, !.mtime_high = 0,
                                 !.name = name]
        h == _write_header(fields)
    IN [self |-> [fields EXCEPT !.adler32 = h.adler32], bytes |-> MAGIC \o h.bytes]

OpenWrite(name, need_close) ==
    /\ pc = "new"
    /\ LET w == InitWrite(name, need_close)
       IN /\ self' = w.self
          /\ fileobj' = w.bytes
    /\ pc' = "write"
    /\ last' = Op("open", 0, 0, <<>>, -1, "none")
    /\ fileobj_writable' = TRUE
    /\ UNCHANGED <<damage, fileobj_closes, plain, wlog, wcalls, crafted, got>>

\* f.write(content)
WriteCall(content) ==
    /\ pc = "write"
    /\ TotalLen(plain) + Len(content) <= MaxLen
    /\ LET w == write(content, self.method, self.level)
       IN /\ fileobj' = fileobj \o w.bytes
          /\ wlog' = w
    /\ plain' = Append(plain, content)
    /\ wcalls' = Append(wcalls, "write")
    /\ last' = Op("write", Len(content), 0, <<>>, -1, "none")
    /\ UNCHANGED <<fileobj_writable, damage, fileobj_closes, pc, self, crafted, got>>

Write(content) == Len(wcalls) < MaxWriterOps /\ WriteCall(content)

\* the write() calls of seek(), one after the other
RECURSIVE write_all(_, _, _)
write_all(contents, method, level) ==
    IF contents = <<>> THEN NoLog
    ELSE LET w == write(Head(contents), method, level)
             rest == write_all(Tail(contents), method, level)
         IN IF Len(contents) = 1 THEN w
            ELSE [rest EXCEPT !.bytes = w.bytes \o rest.bytes]

\* f.seek(offset, whence) on a WRITE stream
SeekWriteCall(offset, whence) ==
    /\ pc = "write"
    /\ LET sk == seek_write(self, offset, whence)
           w == write_all(sk.contents, self.method, self.level)
       IN /\ TotalLen(plain) + TotalLen(sk.contents) <= MaxLen
          /\ fileobj' = fileobj \o w.bytes
          /\ wlog' = IF sk.err = "none" THEN w ELSE wlog
          /\ plain' = plain \o sk.contents
          /\ last' = Op("seek", offset, whence, <<>>, sk.ret, sk.err)
    /\ wcalls' = Append(wcalls, "seek")
    /\ UNCHANGED <<fileobj_writable, damage, fileobj_closes, pc, self, crafted, got>>

SeekWrite(offset, whence) == Len(wcalls) < MaxWriterOps /\ SeekWriteCall(offset, whence)

\* the mutant of close(): it closes the file object whoever opened it, and
\* again when the stream is closed already
close_always(s) == [self |-> [s EXCEPT !.closed = TRUE], closes |-> 1]

\* close(): closes is the number of fileobj.close() calls it makes
close(s) ==
    IF s.closed THEN [self |-> s, closes |-> 0]
    ELSE [self |-> [s EXCEPT !.closed = TRUE], closes |-> IF s.need_close THEN 1 ELSE 0]

\* f.close()

CloseWrite ==
    /\ pc = "write"
    /\ self' = close(self).self
    /\ fileobj_closes' = fileobj_closes + close(self).closes
    /\ pc' = "wclosed"
    /\ last' = Op("close", 0, 0, <<>>, -1, "none")
    /\ UNCHANGED <<fileobj_writable, damage, fileobj, plain, wlog, wcalls, crafted, got>>

\* ------------------------------------------------------------ READ stream

\* LzoFile(mode = 'rb', verify_checksum = ...) over the bytes f
InitReadHeader(fields, h) ==
    IF h.err # "none" THEN [self |-> fields, err |-> h.err]
    ELSE [self |-> SetHeader(fields, h), err |-> "none"]

InitReadMagic(fields, f, m) ==
    IF m.err # "none" THEN [self |-> fields, err |-> m.err]
    ELSE InitReadHeader(fields, _read_header(f, m.fpos, fields.verify_checksum))

InitRead(f, need_close, verify_checksum) ==
    InitReadMagic([NoSelf EXCEPT !.mode = READ, !.need_close = need_close,
                                 !.verify_checksum = verify_checksum],
                  f, _read_magic(f, 0))

\* the outcome r of a constructor, a read, a seek or a rewind, recorded
Opened(r) ==
    /\ self' = r.self
    /\ pc' = IF r.err = "none" THEN "read" ELSE "failed"
    /\ last' = Op("open", 0, 0, <<>>, -1, r.err)

\* open the file a closed WRITE stream produced, through a file object that
\* is writable or not; one the constructor opens itself, in mode 'rb', is not
OpenReadOn(need_close, verify_checksum, writable) ==
    /\ pc = "wclosed"
    /\ need_close => ~writable
    /\ Opened(InitRead(fileobj, need_close, verify_checksum))
    /\ fileobj_closes' = 0
    /\ fileobj_writable' = writable
    /\ got' = <<>>
    /\ UNCHANGED <<damage, fileobj, plain, wlog, wcalls, crafted>>

OpenRead(need_close, verify_checksum) == OpenReadOn(need_close, verify_checksum, FALSE)

\* a hand-made file: a header with the given version, flags, filter word and
\* name, then stored as its checksum, then a terminator.  tracked holds the
\* header bytes from version through name.
\* sum = 0: the Adler-32 of all header bytes; 1: of the header bytes without
\* the filter word; 2: neither
CraftedHeader(version, flags, filter, name, sum) ==
    LET fields == <<pack16(version), pack16(LZO_LIB_VERSION)>>
                    \o (IF version > VER_0940 THEN <<pack16(VER_0940)>> ELSE <<>>)
                    \o <<pack8(1)>>
                    \o (IF version >= VER_0940 THEN <<pack8(1)>> ELSE <<>>)
                    \o <<pack32(flags)>>
        filt == IF HasFlag(flags, F_H_FILTER) THEN <<pack32(filter)>> ELSE <<>>
        rest == <<pack32(0), pack32(0)>>
                    \o (IF version >= VER_0940 THEN <<pack32(0)>> ELSE <<>>)
                    \o <<pack8(Len(name)), name>>
        all == Concat(fields \o filt \o rest)
        unfiltered == Concat(fields \o rest)
        stored == IF sum = 0 THEN lzo_adler32(all, ADLER32_INIT_VALUE)
                  ELSE IF sum = 1 THEN lzo_adler32(unfiltered, ADLER32_INIT_VALUE)
                  ELSE lzo_adler32(all, ADLER32_INIT_VALUE) + 1
    IN [tracked |-> all, stored |-> stored,
        bytes |-> MAGIC \o all \o pack32(stored) \o pack32(0)]

CraftedVersions == {LZOP_VERSION, VER_0940, VER_0900}
CraftedFlags == {F_ADLER32_D + F_ADLER32_C,
                 F_ADLER32_D + F_ADLER32_C + F_H_FILTER,
                 F_ADLER32_D + F_ADLER32_C + F_H_CRC32}
CraftedFilters == {0, 5}

OpenCrafted(version, flags, filter, name, sum, verify_checksum) ==
    /\ pc = "new"
    /\ LET c == CraftedHeader(version, flags, filter, name, sum)
       IN /\ fileobj' = c.bytes
          /\ crafted' = [made |-> TRUE, tracked |-> c.tracked, stored |-> c.stored,
                         flags |-> flags, verify |-> verify_checksum]
    /\ Opened(InitRead(fileobj', FALSE, verify_checksum))
    /\ fileobj_closes' = 0
    /\ fileobj_writable' = FALSE
    /\ UNCHANGED <<damage, plain, wlog, wcalls, got>>

\* f.read(size)
HasRead(r, size) ==
    /\ self' = r.self
    /\ got' = got \o r.ret
    /\ last' = Op("read", size, 0, r.ret, -1, r.err)

Read(size) ==
    /\ pc = "read"
    /\ last.err = "none"
    /\ self.offset + size <= MaxOffset
    /\ HasRead(read(self, fileobj, size), size)
    /\ UNCHANGED <<fileobj_writable, damage, fileobj_closes, pc, fileobj, plain, wlog, wcalls, crafted>>

\* f.seek(offset, whence) on a READ stream
HasSought(r, offset, whence) ==
    /\ self' = r.self
    /\ got' = IF r.rewound THEN r.skipped ELSE got \o r.skipped
    /\ last' = Op("seek", offset, whence, <<>>, r.ret, r.err)

SeekRead(offset, whence) ==
    /\ pc = "read"
    /\ last.err = "none"
    /\ (IF whence = 1 THEN self.offset + offset ELSE offset) \in 0..MaxSeek
    /\ HasSought(seek_read(self, fileobj, offset, whence), offset, whence)
    /\ UNCHANGED <<fileobj_writable, damage, fileobj_closes, pc, fileobj, plain, wlog, wcalls, crafted>>

\* f.rewind()
HasRewound(r) ==
    /\ self' = r.self
    /\ last' = Op("rewind", 0, 0, <<>>, -1, r.err)

Rewind ==
    /\ pc = "read"
    /\ last.err = "none"
    /\ HasRewound(rewind(self, fileobj))
    /\ got' = <<>>
    /\ UNCHANGED <<fileobj_writable, damage, fileobj_closes, pc, fileobj, plain, wlog, wcalls, crafted>>

CloseRead ==
    /\ pc = "read"
    /\ self' = close(self).self
    /\ fileobj_closes' = fileobj_closes + close(self).closes
    /\ pc' = "rclosed"
    /\ last' = Op("close", 0, 0, <<>>, -1, "none")
    /\ UNCHANGED <<fileobj_writable, damage, fileobj, plain, wlog, wcalls, crafted, got>>

\* f.close() on a closed stream
CloseAgain ==
    /\ pc \in {"wclosed", "rclosed"}
    /\ self' = close(self).self
    /\ fileobj_closes' = fileobj_closes + close(self).closes
    /\ last' = Op("close", 1, 0, <<>>, -1, "none")
    /\ UNCHANGED <<fileobj_writable, damage, pc, fileobj, plain, wlog, wcalls, crafted, got>>

\* f.read(size) on a WRITE stream or on a closed stream
ReadOn(size) ==
    /\ pc \in {"write", "wclosed", "rclosed"}
    /\ last.sum + size <= MaxOffset
    /\ HasRead(read(self, fileobj, size), size)
    /\ UNCHANGED <<fileobj_writable, damage, fileobj_closes, pc, fileobj, plain, wlog, wcalls,
                   crafted>>

\* f.write(content) on a READ stream or on a closed stream
HasWritten(r, content) ==
    /\ Len(r.f) = Len(fileobj)
    /\ self' = r.self
    /\ fileobj' = r.f
    /\ last' = Op("write", Len(content), 0, <<>>, -1, r.err)

WriteOn(content) ==
    /\ pc \in {"wclosed", "read", "rclosed"}
    /\ HasWritten(write_on(self, fileobj, fileobj_writable, content), content)
    /\ UNCHANGED <<fileobj_writable, damage, fileobj_closes, pc, plain, wlog, wcalls, crafted,
                   got>>

\* f.seek(offset, whence) on a closed stream
HasSoughtClosed(r, offset, whence) ==
    /\ self' = r.self
    /\ last' = Op("seek", offset, whence, <<>>, -1, r.err)

SeekOn(offset, whence) ==
    /\ pc \in {"wclosed", "rclosed"}
    /\ HasSoughtClosed(seek_closed(self, fileobj, offset, whence), offset, whence)
    /\ UNCHANGED <<fileobj_writable, damage, fileobj_closes, pc, fileobj, plain, wlog, wcalls,
                   crafted, got>>

\* f.read(size) by a caller that caught the exception of the call before
ReadAfter(size) ==
    /\ pc = "read"
    /\ last.err # "none"
    /\ self.offset + (IF size = -1 THEN self.buf_len ELSE size) <= MaxOffset
    /\ last.sum + size <= MaxOffset
    /\ HasRead(read(self, fileobj, size), size)
    /\ UNCHANGED <<fileobj_writable, damage, fileobj_closes, pc, fileobj, plain, wlog, wcalls, crafted>>

\* the position in fileobj of block record i of the one write() call made
RecordAt(i) == Len(fileobj) - Len(wlog.bytes) + Len(BytesOf(SubSeq(wlog.recs, 1, i - 1)))

\* v with its lowest bit flipped
Flip(v) == IF v % 2 = 0 THEN v + 1 ELSE v - 1

\* the file of a closed WRITE stream with one bit flipped in a checksum field
\* of block record i: "d" is its d-adler word, "c" the c-adler word that a
\* compressed block has
Corrupt(i, field) ==
    /\ pc = "wclosed"
    /\ wcalls = <<"write">>
    /\ damage = NoDamage
    /\ i \in 1..Len(wlog.recs)
    /\ wlog.recs[i].ulen > 0
    /\ field = "c" => wlog.recs[i].clen < wlog.recs[i].ulen
    /\ LET p == RecordAt(i) + (IF field = "d" THEN 8 ELSE 12)
       IN fileobj' = Slice(fileobj, 0, p)
                       \o pack32(Flip(unpack32(Slice(fileobj, p, p + 4))))
                       \o Slice(fileobj, p + 4, Len(fileobj))
    /\ damage' = [block |-> i, field |-> field]
    /\ UNCHANGED <<fileobj_writable, fileobj_closes, pc, self, plain, wlog, wcalls, crafted,
                   got, last>>

\* One write() or seek() call on a WRITE stream, close, and the file read
\* back through a READ stream.
Next ==
    \/ \E need_close \in BOOLEAN : OpenWrite(<<>>, need_close)
    \/ \E content \in ShortContents : wcalls = <<>> /\ Write(content)
    \/ \E offset \in 0..MaxPlain, whence \in {0, 1, 2} :
           wcalls = <<>> /\ SeekWrite(offset, whence)
    \/ CloseWrite
    \/ \E verify_checksum \in BOOLEAN : OpenRead(FALSE, verify_checksum)
    \/ \E size \in -1..MaxRead : Read(size)
    \/ \E offset \in -1..MaxSeek, whence \in {0, 1, 2} :
           (whence # 0 => offset \in -1..1) /\ SeekRead(offset, whence)
    \/ Rewind
    \/ CloseRead

Spec == Init /\ [][Next]_vars

\* A WRITE stream alone: any names, several write() and seek() calls.
NextWrite ==
    \/ \E name \in Names, need_close \in BOOLEAN : OpenWrite(name, need_close)
    \/ \E content \in Contents : Write(content)
    \/ \E offset \in 0..MaxLen, whence \in {0, 1, 2} : SeekWrite(offset, whence)
    \/ CloseWrite

SpecWrite == Init /\ [][NextWrite]_vars

\* A READ stream opened on hand-made headers.
NextHeader ==
    \/ \E version \in CraftedVersions, flags \in CraftedFlags, filter \in CraftedFilters,
          name \in Names, sum \in {0, 1, 2}, verify_checksum \in BOOLEAN :
           OpenCrafted(version, flags, filter, name, sum, verify_checksum)
    \/ \E size \in -1..MaxRead : Read(size)
    \/ Rewind
    \/ CloseRead

SpecHeader == Init /\ [][NextHeader]_vars

\* One write(), close, a checksum field damaged or not, and the file read
\* back by a caller that goes on reading after an exception.
NextFaults ==
    \/ OpenWrite(<<>>, FALSE)
    \/ \E content \in ShortContents : wcalls = <<>> /\ Write(content)
    \/ CloseWrite
    \/ \E i \in 1..MaxPlain, field \in {"d", "c"} : Corrupt(i, field)
    \/ \E verify_checksum \in BOOLEAN : OpenRead(FALSE, verify_checksum)
    \/ \E size \in -1..MaxRead : Read(size)
    \/ \E size \in -1..MaxRead : ReadAfter(size)
    \/ CloseRead

SpecFaults == Init /\ [][NextFaults]_vars

\* The life of a stream in either mode: a WRITE stream that is written to
\* and then sought at most once each, calls on the wrong mode, calls after
\* close(), close() again.
NextLife ==
    \/ \E need_close \in BOOLEAN : OpenWrite(<<>>, need_close)
    \/ \E content \in LifeContents : wcalls = <<>> /\ WriteCall(content)
    \/ \E offset \in 0..MaxLife, whence \in {0, 2} :
           wcalls \in {<<>>, <<"write">>} /\ SeekWriteCall(offset, whence)
    \/ CloseWrite
    \/ \E need_close \in BOOLEAN, writable \in BOOLEAN : OpenReadOn(need_close, TRUE, writable)
    \/ \E size \in -1..MaxLife : Read(size)
    \/ \E offset \in 0..MaxLife, whence \in {0, 2} : SeekRead(offset, whence)
    \/ CloseRead
    \/ CloseAgain
    \/ \E size \in -1..MaxLife : ReadOn(size)
    \/ \E content \in LifeContents :
           (pc = "read" => (last.op = "open" \/ (last.op = "read" /\ last.first)))
             /\ WriteOn(content)
    \/ \E offset \in 0..MaxLife, whence \in {0, 1, 2} : SeekOn(offset, whence)

SpecLife == Init /\ [][NextLife]_vars

\* ------------------------------------------------------------ claims

\* the stream was written by exactly one write() call; its plaintext
OneWrite == wcalls = <<"write">>
Plaintext == plain[1]

\* the number of plaintext bytes delivered before the last read
Before == Len(got) - Len(last.ret)

CeilDiv(a, b) == (a + b - 1) \div b
Min(a, b) == IF a < b THEN a ELSE b
EndsWith(s, t) == Len(s) >= Len(t) /\ Slice(s, Len(s) - Len(t), Len(s)) = t

\* C1: round trip: the data of one write() call, closed and opened for
\* reading, is returned whole by a first read(-1).
C1_RoundTrip ==
    (pc = "read" /\ OneWrite /\ last.op = "read" /\ last.first /\ last.arg = -1)
        => (last.err = "none" /\ last.ret = Plaintext)

\* a round trip of more than one block, the first of them compressed
C1_Witness ==
    /\ pc = "read" /\ OneWrite /\ last.op = "read" /\ last.first /\ last.arg = -1
    /\ Len(Plaintext) > BLOCK_SIZE
    /\ wlog.recs[1].clen < wlog.recs[1].ulen
    /\ last.ret = Plaintext

\* C2: chunked reads: after reads read(n), n >= 0, that asked for no more
\* than |P| bytes in all, a read(-1) succeeds and the chunks returned since
\* the stream was opened are, concatenated, P.
C2_ChunkedReads ==
    (pc = "read" /\ OneWrite /\ last.op = "read" /\ last.arg = -1
       /\ last.only /\ last.sum <= Len(Plaintext))
        => (last.err = "none" /\ got = Plaintext)

\* chunks were delivered before the read(-1), which delivered the rest
C2_Witness ==
    /\ pc = "read" /\ OneWrite /\ last.op = "read" /\ last.arg = -1
    /\ last.only /\ ~last.first /\ last.sum <= Len(Plaintext)
    /\ Before > 0 /\ Len(last.ret) > 0
    /\ Len(Plaintext) > BLOCK_SIZE
    /\ got = Plaintext

\* C3: read(n), n >= 0, returns the next n undelivered bytes of the
\* plaintext whenever n bytes are left undelivered.
C3_ReadExact ==
    (pc = "read" /\ OneWrite /\ last.op = "read" /\ last.arg >= 0
       /\ Before + last.arg <= Len(Plaintext))
        => (last.err = "none" /\ last.ret = Slice(Plaintext, Before, Before + last.arg))

\* C4: seek(k) followed by read(m) returns plaintext[k:k+m], for
\* 0 <= k and k + m <= |plaintext|, from any state of a READ stream.
C4_SeekThenRead ==
    [][(pc = "read" /\ OneWrite /\ last.op = "seek" /\ last.whence = 0 /\ last.arg >= 0
          /\ last'.op = "read" /\ last'.arg >= 0
          /\ last.arg + last'.arg <= Len(Plaintext))
        => (last'.err = "none"
              /\ last'.ret = Slice(Plaintext, last.arg, last.arg + last'.arg))]_vars

\* C5: the bytes a closed WRITE stream leaves in its file end with the
\* terminator 00 00 00 00, whatever was done with the stream before close().
C5_EndsWithTerminator == pc = "wclosed" => EndsWith(fileobj, <<0, 0, 0, 0>>)

\* C6: one write() of U > 0 bytes emits ceil(U / BLOCK_SIZE) block records,
\* in the order of the input, all of BLOCK_SIZE plaintext bytes but the last,
\* which has 1..BLOCK_SIZE, and after them one terminator and nothing else.
C6_BlockChunking ==
    (last.op = "write" /\ last.arg > 0) =>
        LET recs == wlog.recs
            content == plain[Len(plain)]
        IN /\ Len(content) = last.arg
           /\ Len(recs) = CeilDiv(last.arg, BLOCK_SIZE)
           /\ \A i \in 1..Len(recs) :
                /\ recs[i].block = Slice(content, (i - 1) * BLOCK_SIZE, i * BLOCK_SIZE)
                /\ recs[i].ulen = Len(recs[i].block)
                /\ recs[i].ulen \in 1..BLOCK_SIZE
                /\ i < Len(recs) => recs[i].ulen = BLOCK_SIZE
                /\ Slice(recs[i].bytes, 0, 4) = pack32(recs[i].ulen)
           /\ wlog.bytes = BytesOf(recs) \o <<0, 0, 0, 0>>
           /\ EndsWith(fileobj, wlog.bytes)

\* a write() of a whole number of blocks
C6_Witness ==
    /\ last.op = "write" /\ last.arg > 0 /\ last.arg % BLOCK_SIZE = 0
    /\ Len(wlog.recs) = last.arg \div BLOCK_SIZE

\* C7: a first write() of the empty byte sequence leaves a file of the
\* magic, the header and one terminator of four bytes, and nothing more.
C7_EmptyWrite ==
    (pc = "write" /\ wcalls = <<"write">> /\ plain = << <<>> >>)
        => fileobj = InitWrite(self.name, self.need_close).bytes \o <<0, 0, 0, 0>>

\* C8: every block record with plaintext P has as compressed-len field and
\* payload length min(|compress(P)|, |P|); its payload is compress(P), with
\* d-adler and c-adler, when that is shorter than P, and P itself, with
\* d-adler only, when it is not.
C8_StoreVsCompress ==
    pc \in {"write", "wclosed"} =>
        \A i \in 1..Len(wlog.recs) :
            LET r == wlog.recs[i]
                c == compress_block(r.block, self.method, self.level)
                d == lzo_adler32(r.block, ADLER32_INIT_VALUE)
            IN r.ulen > 0 =>
                 /\ r.clen = Min(Len(c), Len(r.block))
                 /\ Len(r.payload) = r.clen
                 /\ r.clen <= r.ulen
                 /\ IF Len(c) < Len(r.block)
                    THEN /\ r.payload = c
                         /\ r.bytes = pack32(r.ulen) \o pack32(Len(c)) \o pack32(d)
                                        \o pack32(lzo_adler32(c, ADLER32_INIT_VALUE)) \o c
                    ELSE /\ r.payload = r.block
                         /\ r.bytes = pack32(r.ulen) \o pack32(r.ulen) \o pack32(d) \o r.block

\* one write() that emitted a compressed block and a block stored raw
C8_Witness ==
    /\ pc = "write"
    /\ \E i, j \in 1..Len(wlog.recs) :
          /\ wlog.recs[i].ulen > 0 /\ wlog.recs[i].clen < wlog.recs[i].ulen
          /\ wlog.recs[j].ulen > 0 /\ wlog.recs[j].clen = wlog.recs[j].ulen

\* the header of C9 for a name
ExpectedHeader(name) ==
    LET body == pack16(4144) \o pack16(2368) \o pack16(2368) \o pack8(1) \o pack8(1)
                  \o pack32(3) \o pack32(0) \o pack32(0) \o pack32(0)
                  \o pack8(Len(name)) \o name
    IN body \o pack32(lzo_adler32(body, 1))

\* C9: the header written when a WRITE stream is constructed holds
\* version 0x1030, libver 0x0940, extract-version 0x0940, method 1, level 1,
\* flags ADLER32_D|ADLER32_C, file-mode 0, mtime-low 0, mtime-high 0, the
\* length of the name, the name, and the Adler-32 of all those bytes.
C9_Header == (pc = "write" /\ wcalls = <<>>) => fileobj = MAGIC \o ExpectedHeader(self.name)

\* C10: with verification on, a header is accepted exactly when the
\* checksum stored in it is the Adler-32 of its bytes from version through
\* name, the filter word included.
C10_HeaderChecksum ==
    (crafted.made /\ crafted.verify /\ last.op = "open"
       /\ ~HasFlag(crafted.flags, F_H_CRC32))
        => (last.err = "none"
              <=> crafted.stored = lzo_adler32(crafted.tracked, ADLER32_INIT_VALUE))

\* C11: the first read of a file with one damaged block checksum, asking for
\* bytes of the damaged block: with verify_checksum it raises and returns
\* nothing, without verify_checksum it returns the bytes asked for.
C11_BlockChecksum ==
    (pc = "read" /\ OneWrite /\ damage.field # "none" /\ last.op = "read" /\ last.first
       /\ (last.arg = -1
             \/ (last.arg > (damage.block - 1) * BLOCK_SIZE /\ last.arg <= Len(Plaintext))))
        => IF self.verify_checksum
           THEN last.err = "AssertionError" /\ last.ret = <<>> /\ got = <<>>
           ELSE /\ last.err = "none"
                /\ last.ret = IF last.arg = -1 THEN Plaintext
                               ELSE Slice(Plaintext, 0, last.arg)

\* a read that stopped at the damaged d-adler of the second block
C11_Witness ==
    /\ pc = "read" /\ OneWrite /\ last.op = "read" /\ last.first
    /\ damage = [block |-> 2, field |-> "d"]
    /\ self.verify_checksum
    /\ last.err = "AssertionError"

\* C12: a close() of an open stream marks it closed and closes the file
\* object exactly when the stream opened it; a close() of a closed stream
\* changes nothing; the file object is never closed twice.
C12_CloseOnce ==
    [][/\ fileobj_closes' = (IF self'.closed /\ self'.need_close THEN 1 ELSE 0)
       /\ (last'.op = "close" /\ damage' = damage) =>
             IF self.closed
             THEN UNCHANGED <<self, fileobj, fileobj_closes, fileobj_writable>>
             ELSE /\ self' = [self EXCEPT !.closed = TRUE]
                  /\ fileobj' = fileobj
                  /\ fileobj_closes' = fileobj_closes + (IF self.need_close THEN 1 ELSE 0)]_vars

\* close() called again on a closed stream that had opened its file itself
C12_Witness ==
    /\ last.op = "close" /\ last.arg = 1
    /\ self.closed /\ self.need_close
    /\ fileobj_closes = 1

\* C13: a read, write or seek called on a closed stream raises the
\* ValueError of _check_closed (a seek from the end apart, whose argument is
\* rejected first).
C13_ClosedRejects ==
    (pc \in {"wclosed", "rclosed"} /\ last.op \in {"read", "write", "seek"}
       /\ ~(last.op = "seek" /\ last.whence = 2))
        => last.err = ClosedError

\* C14: on an open stream, read() in WRITE mode and write() in READ mode
\* raise an error of the mode (IOError, or the file object's refusal to be
\* written) and change neither the file nor the stream.
C14_ModeEnforced ==
    [][(~self.closed /\ damage' = damage
          /\ \/ (self.mode = WRITE /\ last'.op = "read")
             \/ (self.mode = READ /\ last'.op = "write"))
        => (/\ last'.err \in {"IOError", "UnsupportedOperation"}
            /\ fileobj' = fileobj
            /\ self' = self)]_vars

\* C15: on an open stream a seek from the end is rejected, and on a WRITE
\* stream so is a seek to a target below the number of plaintext bytes
\* produced so far; a rejected seek leaves the file as it was.
C15_IllegalSeeks ==
    [][(~self.closed /\ damage' = damage /\ last'.op = "seek")
        => /\ last'.whence = 2 => (last'.err = SeekEndError /\ fileobj' = fileobj)
           /\ (self.mode = WRITE /\ last'.whence = 0 /\ last'.arg < TotalLen(plain))
                 => (last'.err = "IOError" /\ fileobj' = fileobj)]_vars

\* C16: seek(k) as the only call on a WRITE stream returns k, and the file
\* read back with read(-1) begins with k zero bytes.
C16_SeekForward ==
    /\ (pc = "write" /\ wcalls = <<"seek">> /\ last.op = "seek" /\ last.whence = 0)
          => (last.err = "none" /\ last.val = last.arg)
    /\ (pc = "read" /\ wcalls = <<"seek">> /\ last.op = "read" /\ last.first
           /\ last.arg = -1)
          => (last.err = "none"
                /\ Slice(last.ret, 0, TotalLen(plain)) = Zeros(TotalLen(plain)))

\* C17: a seek on a READ stream to a target beyond the plaintext raises
\* nothing and returns the length of the plaintext, and a read(-1) right
\* after it returns the empty sequence.
C17_SeekPastEnd ==
    [][(pc = "read" /\ OneWrite /\ damage' = damage)
        => /\ (last'.op = "seek" /\ last'.whence = 0 /\ last'.arg > Len(Plaintext))
                 => (last'.err = "none" /\ last'.val = Len(Plaintext))
           /\ (last.op = "seek" /\ last.whence = 0 /\ last.arg > Len(Plaintext)
                 /\ last'.op = "read" /\ last'.arg = -1)
                 => (last'.err = "none" /\ last'.ret = <<>>)]_vars

\* C18: on a READ stream _buf_len is the number of bytes held in _buf.
C18_BufLen == pc = "read" => self.buf_len = TotalLen(self.buf)

\* C19: on a READ stream whose last call returned, the logical offset is the
\* number of bytes delivered by read or skipped by seek since the stream was
\* opened or rewound.
C19_Offset == (pc = "read" /\ OneWrite /\ last.err = "none") => self.offset = Len(got)

\* the plaintext bytes of the block records a READ stream has read from the
\* file so far: those of the first i records that end at or before its
\* file position
RECURSIVE Fetched(_)
Fetched(i) ==
    IF i = 0 THEN 0
    ELSE (IF RecordAt(i + 1) <= self.fpos THEN wlog.recs[i].ulen ELSE 0) + Fetched(i - 1)

\* C20: after a read() that returned, the FIFO holds at most one block, and
\* every plaintext byte read from the file has been delivered or is still
\* in the FIFO: nothing is dropped but by rewind.
C20_NothingDropped ==
    (pc = "read" /\ OneWrite /\ damage = NoDamage)
        => /\ (last.op = "read" /\ last.err = "none") => Len(self.buf) <= 1
           /\ Len(got) + TotalLen(self.buf) = Fetched(Len(wlog.recs))

====
